---------------------------- MODULE Spec2Model ----------------------------
(***************************************************************************)
(* rufus: a word-addressed virtual CPU (src/src/main.rs) with a            *)
(* memory-mapped character device and a breakpoint debugger, and its       *)
(* two-pass assembler (src/src/asm.rs).                                    *)
(*                                                                         *)
(* Representation.  TLC's integers are 32-bit signed, so a u32 word is     *)
(* kept as its two 16-bit halves [hi, lo]; every conversion the code makes *)
(* (to_be_bytes, from_be_bytes, to_le_bytes, from_le_bytes, `as u8`,       *)
(* `as u16`, `as u32`) is computed on that representation.  The 65,536     *)
(* word memory array is kept as the function from the addresses of its     *)
(* nonzero cells to their words; every other cell reads as zero.  Text     *)
(* (assembly source, debugger commands) is a sequence of one-character     *)
(* strings.                                                                *)
(*                                                                         *)
(* Standard output is kept in two parts: `out', the characters the device  *)
(* prints (print! at main.rs:408), and `term', the last line the debugger  *)
(* printed with println!, as its format string and argument.  The prompt,  *)
(* the flushes and the rendering of the argument are left to the standard  *)
(* library.  The throughput report (main.rs:418-422) is reached after      *)
(* 100,000,000 steps, beyond MaxSteps; the counter is kept.                *)
(*                                                                         *)
(* The operators + on u32 and unary - on i32 panic on overflow in a build  *)
(* with overflow checks and wrap in one without: `checked' is the build.   *)
(***************************************************************************)
EXTENDS Integers, Sequences, FiniteSets, TLC

VARIABLES
    asm,          \* assemble: the source text (asm.rs:78)
    at,           \* position of the process: "pass1", "pass2", "main", "top", "debug", "exec", "aborted", "codec"
    idx,          \* assemble: index of the line the current fold is about to visit
    symbols,      \* ParseState.symbols (asm.rs:9)
    asmBreaks,    \* ParseState.breakpoints of pass 1 (asm.rs:11), returned by assemble
    program,      \* ParseState.program.program (asm.rs:10, main.rs:484)
    memory,       \* Machine.memory (main.rs:278), nonzero cells only
    breakpoints,  \* Machine.breakpoints (main.rs:279)
    pc,           \* run: local `pc` (main.rs:331)
    inst,         \* run: local `inst`, the fetched word (main.rs:337)
    i,            \* run: local `i`, steps since the last throughput report (main.rs:329)
    out,          \* characters written by the device (main.rs:408)
    term,         \* the last line the debugger printed (main.rs:427, 439, 461)
    panic,        \* the message of the panic that aborted the process, "" while it runs
    checked,      \* build profile: TRUE when integer overflow panics (debug), FALSE when it wraps (release)
    codec         \* codec round trip: the record, its encoding and the decoding of that

vars == <<asm, at, idx, symbols, asmBreaks, program, memory, breakpoints, pc, inst, i,
          out, term, panic, checked, codec>>

-----------------------------------------------------------------------------
(* Bounds of the model *)

MaxSteps == 4    \* iterations of the run loop explored per run
MaxOut == 2      \* characters of device output explored per run
MaxLines == 2    \* instruction lines per assembled source
MaxProg == 2     \* words per directly loaded program

-----------------------------------------------------------------------------
(* Words and integer conversions *)

U16 == 65536

W(h, l) == [hi |-> h, lo |-> l]

Zero == W(0, 0)

\* `x as u32` for a u16 or u8 x
as_u32(x) == W(0, x)

\* `w as u16` for a u32 w
as_u16(w) == w.lo

\* `w as u8` for a u32 w
as_u8(w) == w.lo % 256

\* u32::from_be_bytes
from_be_bytes(b) == W(b[1] * 256 + b[2], b[3] * 256 + b[4])

\* u32::to_be_bytes
to_be_bytes(w) == <<w.hi \div 256, w.hi % 256, w.lo \div 256, w.lo % 256>>

\* u16::to_le_bytes
to_le_bytes(x) == <<x % 256, x \div 256>>

\* u16::from_le_bytes
from_le_bytes(b) == b[1] + 256 * b[2]

\* u32 `+`: the wrapped sum and whether it overflowed
AddU32(a, b) ==
    LET lo == a.lo + b.lo
        hi == a.hi + b.hi + (lo \div U16)
    IN  [value |-> W(hi % U16, lo % U16), overflow |-> hi >= U16]

\* i32 unary `-` on the cast of a u32, cast back: the wrapped result and whether it overflowed
NegI32(a) ==
    LET lo == (U16 - a.lo) % U16
        hi == (U16 - 1 - a.hi + (IF a.lo = 0 THEN 1 ELSE 0)) % U16
    IN  [value |-> W(hi, lo), overflow |-> a = W(32768, 0)]

\* the comparison made on the u32 without the cast
PositiveI32_unsigned(w) == w # Zero

\* bytemuck::cast::<u32, i32>(w) > 0
PositiveI32(w) == w.hi < 32768 /\ w # Zero

Bit(op, x, y) ==
    CASE op = "and" -> x * y
      [] op = "or"  -> IF x + y > 0 THEN 1 ELSE 0
      [] op = "xor" -> (x + y) % 2

RECURSIVE Bitwise(_, _, _, _)
Bitwise(op, a, b, n) ==
    IF n = 0 THEN 0
    ELSE Bit(op, a % 2, b % 2) + 2 * Bitwise(op, a \div 2, b \div 2, n - 1)

\* u32 `&`, `|`, `^`
BitU32(op, a, b) == W(Bitwise(op, a.hi, b.hi, 16), Bitwise(op, a.lo, b.lo, 16))

-----------------------------------------------------------------------------
(* Reserved addresses and opcodes *)

PC == 0

WRITING == 65534

DATA == 65535

Opcodes ==
    [ZeroPageAdd |-> 0, ZeroPageNeg |-> 1, ZeroPageAnd |-> 2, ZeroPageOr |-> 4,
     ZeroPageXor |-> 5, ZeroPageLoad |-> 6, ZeroPageStore |-> 9,
     ZeroPageImmediateLoad |-> 10, ZeroPageLoadIfPos |-> 12]

\* Opcodes::from_u8: the variant with that discriminant, or "None"
from_u8(b) ==
    IF \E k \in DOMAIN Opcodes : Opcodes[k] = b
    THEN CHOOSE k \in DOMAIN Opcodes : Opcodes[k] = b
    ELSE "None"

-----------------------------------------------------------------------------
(* Instruction codec: impl Inst<1> for each of the nine structs *)

\* what from_bytes yields when its assert_eq! on the opcode byte fails
FormatViolation == [kind |-> "assertion failed"]

ZeroPageAdd_to_bytes(x) == from_be_bytes(<<Opcodes.ZeroPageAdd, x.lhs, x.rhs, x.out>>)

ZeroPageAdd_from_bytes(w) ==
    LET bytes == to_be_bytes(w)
    IN  IF bytes[1] # Opcodes.ZeroPageAdd THEN FormatViolation
        ELSE [kind |-> "ZeroPageAdd", lhs |-> bytes[2], rhs |-> bytes[3], out |-> bytes[4]]

ZeroPageAnd_to_bytes(x) == from_be_bytes(<<Opcodes.ZeroPageAnd, x.lhs, x.rhs, x.out>>)

ZeroPageAnd_from_bytes(w) ==
    LET bytes == to_be_bytes(w)
    IN  IF bytes[1] # Opcodes.ZeroPageAnd THEN FormatViolation
        ELSE [kind |-> "ZeroPageAnd", lhs |-> bytes[2], rhs |-> bytes[3], out |-> bytes[4]]

ZeroPageOr_to_bytes(x) == from_be_bytes(<<Opcodes.ZeroPageOr, x.lhs, x.rhs, x.out>>)

ZeroPageOr_from_bytes(w) ==
    LET bytes == to_be_bytes(w)
    IN  IF bytes[1] # Opcodes.ZeroPageOr THEN FormatViolation
        ELSE [kind |-> "ZeroPageOr", lhs |-> bytes[2], rhs |-> bytes[3], out |-> bytes[4]]

ZeroPageXor_to_bytes(x) == from_be_bytes(<<Opcodes.ZeroPageXor, x.lhs, x.rhs, x.out>>)

ZeroPageXor_from_bytes(w) ==
    LET bytes == to_be_bytes(w)
    IN  IF bytes[1] # Opcodes.ZeroPageXor THEN FormatViolation
        ELSE [kind |-> "ZeroPageXor", lhs |-> bytes[2], rhs |-> bytes[3], out |-> bytes[4]]

ZeroPageNegate_to_bytes(x) == from_be_bytes(<<Opcodes.ZeroPageNeg, x.input, x.out, 0>>)

ZeroPageNegate_from_bytes(w) ==
    LET bytes == to_be_bytes(w)
    IN  IF bytes[1] # Opcodes.ZeroPageNeg THEN FormatViolation
        ELSE [kind |-> "ZeroPageNegate", input |-> bytes[2], out |-> bytes[3]]

ZeroPageImmediateLoad_to_bytes(x) ==
    LET imm == to_le_bytes(x.imm)
    IN  from_be_bytes(<<Opcodes.ZeroPageImmediateLoad, x.addr, imm[1], imm[2]>>)

ZeroPageImmediateLoad_from_bytes(w) ==
    LET bytes == to_be_bytes(w)
    IN  IF bytes[1] # Opcodes.ZeroPageImmediateLoad THEN FormatViolation
        ELSE [kind |-> "ZeroPageImmediateLoad", addr |-> bytes[2],
              imm |-> from_le_bytes(<<bytes[3], bytes[4]>>)]

ZeroPageLoad_to_bytes(x) ==
    LET from == to_le_bytes(x.from)
    IN  from_be_bytes(<<Opcodes.ZeroPageLoad, from[1], from[2], x.to>>)

\* the decoder with the fields laid out as in ZeroPageStore: to is the 16-bit field
ZeroPageLoad_from_bytes_wide(w) ==
    LET bytes == to_be_bytes(w)
    IN  IF bytes[1] # Opcodes.ZeroPageLoad THEN FormatViolation
        ELSE [kind |-> "ZeroPageLoad", from |-> bytes[2],
              to |-> from_le_bytes(<<bytes[3], bytes[4]>>)]

ZeroPageLoad_from_bytes(w) ==
    LET bytes == to_be_bytes(w)
    IN  IF bytes[1] # Opcodes.ZeroPageLoad THEN FormatViolation
        ELSE [kind |-> "ZeroPageLoad", from |-> from_le_bytes(<<bytes[2], bytes[3]>>),
              to |-> bytes[4]]

\* the 16-bit field written high byte first
ZeroPageStore_to_bytes_be(x) ==
    from_be_bytes(<<Opcodes.ZeroPageStore, x.from, x.to \div 256, x.to % 256>>)

ZeroPageStore_to_bytes(x) ==
    LET to == to_le_bytes(x.to)
    IN  from_be_bytes(<<Opcodes.ZeroPageStore, x.from, to[1], to[2]>>)

ZeroPageStore_from_bytes(w) ==
    LET bytes == to_be_bytes(w)
    IN  IF bytes[1] # Opcodes.ZeroPageStore THEN FormatViolation
        ELSE [kind |-> "ZeroPageStore", from |-> bytes[2],
              to |-> from_le_bytes(<<bytes[3], bytes[4]>>)]

ZeroPageLoadIfPos_to_bytes(x) ==
    from_be_bytes(<<Opcodes.ZeroPageLoadIfPos, x.cond, x.from, x.to>>)

ZeroPageLoadIfPos_from_bytes(w) ==
    LET bytes == to_be_bytes(w)
    IN  IF bytes[1] # Opcodes.ZeroPageLoadIfPos THEN FormatViolation
        ELSE [kind |-> "ZeroPageLoadIfPos", cond |-> bytes[2], from |-> bytes[3],
              to |-> bytes[4]]

\* Inst::to_bytes, dispatched on the type of the record
to_bytes(x) ==
    CASE x.kind = "ZeroPageAdd" -> ZeroPageAdd_to_bytes(x)
      [] x.kind = "ZeroPageAnd" -> ZeroPageAnd_to_bytes(x)
      [] x.kind = "ZeroPageOr" -> ZeroPageOr_to_bytes(x)
      [] x.kind = "ZeroPageXor" -> ZeroPageXor_to_bytes(x)
      [] x.kind = "ZeroPageNegate" -> ZeroPageNegate_to_bytes(x)
      [] x.kind = "ZeroPageImmediateLoad" -> ZeroPageImmediateLoad_to_bytes(x)
      [] x.kind = "ZeroPageLoad" -> ZeroPageLoad_to_bytes(x)
      [] x.kind = "ZeroPageStore" -> ZeroPageStore_to_bytes(x)
      [] x.kind = "ZeroPageLoadIfPos" -> ZeroPageLoadIfPos_to_bytes(x)

\* Inst::from_bytes of the type named `kind`
from_bytes(kind, w) ==
    CASE kind = "ZeroPageAdd" -> ZeroPageAdd_from_bytes(w)
      [] kind = "ZeroPageAnd" -> ZeroPageAnd_from_bytes(w)
      [] kind = "ZeroPageOr" -> ZeroPageOr_from_bytes(w)
      [] kind = "ZeroPageXor" -> ZeroPageXor_from_bytes(w)
      [] kind = "ZeroPageNegate" -> ZeroPageNegate_from_bytes(w)
      [] kind = "ZeroPageImmediateLoad" -> ZeroPageImmediateLoad_from_bytes(w)
      [] kind = "ZeroPageLoad" -> ZeroPageLoad_from_bytes(w)
      [] kind = "ZeroPageStore" -> ZeroPageStore_from_bytes(w)
      [] kind = "ZeroPageLoadIfPos" -> ZeroPageLoadIfPos_from_bytes(w)

-----------------------------------------------------------------------------
(* Machine: memory access *)

\* Machine::read
read(mem, addr) == IF addr \in DOMAIN mem THEN mem[addr] ELSE Zero

\* Machine::write
write(mem, addr, value) ==
    IF value = Zero
    THEN [a \in DOMAIN mem \ {addr} |-> mem[a]]
    ELSE [a \in DOMAIN mem \cup {addr} |-> IF a = addr THEN value ELSE mem[a]]

\* Machine::default: all cells zero
EmptyMemory == [a \in {} |-> Zero]

\* Machine::program: copy the words to addr, addr + 1, ...
RECURSIVE LoadProgram(_, _, _)
LoadProgram(mem, words, addr) ==
    IF words = <<>> THEN mem
    ELSE LoadProgram(write(mem, addr, Head(words)), Tail(words), addr + 1)

-----------------------------------------------------------------------------
(* Text: str::trim, str::split, join, starts_with, ends_with, integer parsing *)

IsWhitespace(c) == c \in {" ", "\t", "\r", "\n"}

RECURSIVE TrimStart(_)
TrimStart(s) ==
    IF s # <<>> /\ IsWhitespace(Head(s)) THEN TrimStart(Tail(s)) ELSE s

RECURSIVE TrimEnd(_)
TrimEnd(s) ==
    IF s # <<>> /\ IsWhitespace(s[Len(s)]) THEN TrimEnd(SubSeq(s, 1, Len(s) - 1)) ELSE s

\* str::trim
Trim(s) == TrimEnd(TrimStart(s))

\* str::split(sep).collect(): the pieces between separators, empty pieces included
RECURSIVE Split(_, _)
Split(s, sep) ==
    IF \E k \in 1..Len(s) : s[k] = sep
    THEN LET k == CHOOSE j \in 1..Len(s) : s[j] = sep /\ \A h \in 1..(j - 1) : s[h] # sep
         IN  <<SubSeq(s, 1, k - 1)>> \o Split(SubSeq(s, k + 1, Len(s)), sep)
    ELSE <<s>>

\* [&str]::join(sep)
RECURSIVE Join(_, _)
Join(pieces, sep) ==
    IF pieces = <<>> THEN <<>>
    ELSE IF Len(pieces) = 1 THEN pieces[1]
    ELSE pieces[1] \o <<sep>> \o Join(Tail(pieces), sep)

\* str::starts_with
StartsWith(s, prefix) == Len(s) >= Len(prefix) /\ SubSeq(s, 1, Len(prefix)) = prefix

\* str::ends_with(char)
EndsWith(s, c) == s # <<>> /\ s[Len(s)] = c

\* s.chars().skip(n).collect()
Skip(s, n) == SubSeq(s, n + 1, Len(s))

Digits ==
    <<"0", "1", "2", "3", "4", "5", "6", "7", "8", "9", "a", "b", "c", "d", "e", "f">>

UpperDigits ==
    <<"0", "1", "2", "3", "4", "5", "6", "7", "8", "9", "A", "B", "C", "D", "E", "F">>

\* char::to_digit(radix): the digit's value, or -1 when c is no digit of the radix
ToDigit(c, radix) ==
    IF \E k \in 1..radix : Digits[k] = c \/ UpperDigits[k] = c
    THEN (CHOOSE k \in 1..radix : Digits[k] = c \/ UpperDigits[k] = c) - 1
    ELSE -1

\* char::is_ascii_digit
IsAsciiDigit(c) == ToDigit(c, 10) >= 0

RECURSIVE Accumulate(_, _, _, _)
Accumulate(s, radix, max, acc) ==
    IF s = <<>> THEN [ok |-> TRUE, value |-> acc]
    ELSE IF ToDigit(Head(s), radix) < 0 THEN [ok |-> FALSE, value |-> 0]
    ELSE IF acc * radix + ToDigit(Head(s), radix) > max THEN [ok |-> FALSE, value |-> 0]
    ELSE Accumulate(Tail(s), radix, max, acc * radix + ToDigit(Head(s), radix))

\* from_str_radix of an unsigned type whose largest value is max: one leading "+"
\* is accepted; an empty string, a string without digits, a character that is no
\* digit and a value above max are errors.  The numerals of this model stay
\* below 2^31.
from_str_radix(s, radix, max) ==
    LET digits == IF s # <<>> /\ Head(s) = "+" THEN Tail(s) ELSE s
    IN  IF digits = <<>> THEN [ok |-> FALSE, value |-> 0]
        ELSE Accumulate(digits, radix, max, 0)

U16Max == 65535

\* stands for u64::MAX: no numeral of the model is above it
U64Max == 2147483647

-----------------------------------------------------------------------------
(* Panic messages *)

UnwrapNone == "called Option::unwrap() on a None value"

UnwrapErr == "called Result::unwrap() on an Err value"

NotSupported == "not yet implemented: VLE is not yet supported"

AddOverflow == "attempt to add with overflow"

NegOverflow == "attempt to negate with overflow"

Exitting == "Exitting"

UnknownOpcode == "Unknown opcode"

-----------------------------------------------------------------------------
(* Machine::run: one iteration of the loop, in the pieces of its body *)

\* only the first element compared
contains_first(vec, x) == vec # <<>> /\ vec[1] = x

\* Vec::contains
contains(vec, x) == \E k \in 1..Len(vec) : vec[k] = x

\* `n as u32` for a number n below 2^31
U32(n) == W(n \div U16, n % U16)

\* the length with the mask 0b01 in place of 0b11
Length_mask(opcode) == IF opcode % 2 = 1 THEN -1 ELSE 1

\* the length computed from the opcode byte; -1 stands for todo!(), which never returns
Length(opcode) == IF opcode % 4 = 3 THEN -1 ELSE 1

Done(mem) == [panic |-> "", mem |-> mem]

Panicked(mem, msg) == [panic |-> msg, mem |-> mem]

\* the match on Opcodes::from_u8(opcode).unwrap(): decode the word and execute it
Execute(mem, word, chk) ==
    LET opcode == to_be_bytes(word)[1]
        kind == from_u8(opcode)
    IN  CASE kind = "None" -> Panicked(mem, UnwrapNone)
          [] kind = "ZeroPageAdd" ->
                LET x == ZeroPageAdd_from_bytes(word)
                    sum == AddU32(read(mem, x.lhs), read(mem, x.rhs))
                IN  IF sum.overflow /\ chk THEN Panicked(mem, AddOverflow)
                    ELSE Done(write(mem, x.out, sum.value))
          [] kind = "ZeroPageNeg" ->
                LET x == ZeroPageNegate_from_bytes(word)
                    neg == NegI32(read(mem, x.input))
                IN  IF neg.overflow /\ chk THEN Panicked(mem, NegOverflow)
                    ELSE Done(write(mem, x.out, neg.value))
          [] kind = "ZeroPageAnd" ->
                LET x == ZeroPageAnd_from_bytes(word)
                IN  Done(write(mem, x.out, BitU32("and", read(mem, x.lhs), read(mem, x.rhs))))
          [] kind = "ZeroPageOr" ->
                LET x == ZeroPageOr_from_bytes(word)
                IN  Done(write(mem, x.out, BitU32("or", read(mem, x.lhs), read(mem, x.rhs))))
          [] kind = "ZeroPageXor" ->
                LET x == ZeroPageXor_from_bytes(word)
                IN  Done(write(mem, x.out, BitU32("xor", read(mem, x.lhs), read(mem, x.rhs))))
          [] kind = "ZeroPageImmediateLoad" ->
                LET x == ZeroPageImmediateLoad_from_bytes(word)
                IN  Done(write(mem, x.addr, as_u32(x.imm)))
          [] kind = "ZeroPageLoad" ->
                LET x == ZeroPageLoad_from_bytes(word)
                IN  Done(write(mem, x.to, read(mem, x.from)))
          [] kind = "ZeroPageStore" ->
                LET x == ZeroPageStore_from_bytes(word)
                IN  Done(write(mem, x.to, read(mem, x.from)))
          [] kind = "ZeroPageLoadIfPos" ->
                LET x == ZeroPageLoadIfPos_from_bytes(word)
                IN  IF PositiveI32(read(mem, x.cond))
                    THEN Done(write(mem, x.to, read(mem, x.from)))
                    ELSE Done(mem)

\* the device without the write that clears WRITING
SideEffect_noclear(mem) ==
    IF read(mem, WRITING) # Zero
    THEN [mem |-> mem, emit |-> <<as_u8(read(mem, DATA))>>]
    ELSE [mem |-> mem, emit |-> <<>>]

\* the device: when WRITING is nonzero, print DATA as a character and clear WRITING
SideEffect(mem) ==
    IF read(mem, WRITING) # Zero
    THEN [mem |-> write(mem, WRITING, Zero), emit |-> <<as_u8(read(mem, DATA))>>]
    ELSE [mem |-> mem, emit |-> <<>>]

\* the advance counted in bytes, four to the word
AdvancePC_bytes(mem, fetched, length) ==
    IF fetched = as_u16(read(mem, PC))
    THEN write(mem, PC, U32(fetched + 4 * length))
    ELSE mem

\* advance PC by the instruction's length unless the fetch address differs from PC now
AdvancePC(mem, fetched, length) ==
    IF fetched = as_u16(read(mem, PC))
    THEN write(mem, PC, U32(fetched + length))
    ELSE mem

ReportEvery == 100000000

\* the throughput counter
Count(n) == IF n + 1 = ReportEvery THEN 0 ELSE n + 1

\* a line of the debugger: the format string of the println! and its argument
Line(fmt, arg) == [fmt |-> fmt, arg |-> arg]

NoLine == Line("", Zero)

HitLine(mem) == Line("Hit breakpoint at 0x{:04x}", read(mem, PC))

ReadLine(word) == Line("{:032b}", word)

InvalidLine == Line("Invalid command", Zero)

\* the panic after the PC cell was moved to the following word
Abort_advanced(msg) ==
    /\ at' = "aborted"
    /\ panic' = msg
    /\ memory' = write(memory, PC, W(0, (pc + 1) % U16))
    /\ UNCHANGED <<out, i, term>>

\* the process panics with msg: nothing else changes, and no further step runs
Abort(msg) ==
    /\ at' = "aborted"
    /\ panic' = msg
    /\ UNCHANGED <<memory, out, i, term>>

\* the reachable top of the loop: read PC, and enter the debugger at a breakpoint
Fetch ==
    /\ at = "top"
    /\ i < MaxSteps
    /\ Len(out) < MaxOut
    /\ pc' = as_u16(read(memory, PC))
    /\ IF contains(breakpoints, pc')
       THEN at' = "debug" /\ term' = HitLine(memory)
       ELSE at' = "exec" /\ term' = term
    /\ UNCHANGED <<asm, idx, symbols, asmBreaks, program, memory, breakpoints, inst, i,
                   out, panic, checked, codec>>

\* the rest of the iteration: fetch the word at pc, decode, execute, device, PC, counter
Exec ==
    /\ at = "exec"
    /\ inst' = read(memory, pc)
    /\ LET opcode == to_be_bytes(read(memory, pc))[1]
           length == Length(opcode)
           done == Execute(memory, read(memory, pc), checked)
           dev == SideEffect(done.mem)
       IN  IF length < 0 THEN Abort(NotSupported)
           ELSE IF done.panic # "" THEN Abort(done.panic)
           ELSE /\ memory' = AdvancePC(dev.mem, pc, length)
                /\ out' = out \o dev.emit
                /\ i' = Count(i)
                /\ at' = "top"
                /\ UNCHANGED <<panic, term>>
    /\ UNCHANGED <<asm, idx, symbols, asmBreaks, program, breakpoints, pc, checked, codec>>

-----------------------------------------------------------------------------
(* Machine::debug: one iteration of the command loop *)

C_c == <<"c">>
C_cont == <<"c", "o", "n", "t">>
C_continue == <<"c", "o", "n", "t", "i", "n", "u", "e">>
C_r == <<"r">>
C_read == <<"r", "e", "a", "d">>
C_exit == <<"e", "x", "i", "t">>

\* the command lines the model reads from standard input
Commands ==
    { C_c, C_cont \o <<"\n">>, <<" ">> \o C_continue \o <<" ", "x", "\n">>,
      C_r \o <<" ", "8", "0", "0", "0", "\n">>, C_read \o <<" ", "1", "\n">>,
      C_r \o <<" ", "F", "F", "F", "F">>,
      C_r \o <<"\n">>, C_read \o <<" ", "z">>, C_r \o <<" ", "1", "0", "0", "0", "0">>,
      C_r \o <<" ", " ", "1">>,
      C_exit \o <<"\n">>, <<"x", "\n">>, <<>>, <<"\n">>, <<"C">>,
      C_exit \o <<"s", "\n">> }

\* the dispatch with a read command that clears the cell it prints
Debug_poke(line) ==
    /\ at = "debug"
    /\ LET cmd == Trim(line)
           words == Split(cmd, " ")
           opcode == words[1]
       IN  CASE opcode \in {C_c, C_cont, C_continue} ->
                    at' = "exec" /\ UNCHANGED <<memory, out, i, term, panic>>
             [] opcode \in {C_r, C_read} ->
                    IF Len(words) < 2 THEN Abort(UnwrapNone)
                    ELSE LET addr == from_str_radix(words[2], 16, U16Max)
                         IN  IF ~addr.ok THEN Abort(UnwrapErr)
                             ELSE /\ term' = ReadLine(read(memory, addr.value))
                                  /\ memory' = write(memory, addr.value, Zero)
                                  /\ UNCHANGED <<at, out, i, panic>>
             [] opcode = C_exit -> Abort(Exitting)
             [] OTHER -> term' = InvalidLine /\ UNCHANGED <<at, memory, out, i, panic>>
    /\ UNCHANGED <<asm, idx, symbols, asmBreaks, program, breakpoints, pc, inst, checked,
                   codec>>

\* dispatch of one command line read in the debugger
Debug(line) ==
    /\ at = "debug"
    /\ LET cmd == Trim(line)
           words == Split(cmd, " ")
           opcode == words[1]
       IN  CASE opcode \in {C_c, C_cont, C_continue} ->
                    at' = "exec" /\ UNCHANGED <<memory, out, i, term, panic>>
             [] opcode \in {C_r, C_read} ->
                    IF Len(words) < 2 THEN Abort(UnwrapNone)
                    ELSE LET addr == from_str_radix(words[2], 16, U16Max)
                         IN  IF ~addr.ok THEN Abort(UnwrapErr)
                             ELSE /\ term' = ReadLine(read(memory, addr.value))
                                  /\ UNCHANGED <<at, memory, out, i, panic>>
             [] opcode = C_exit -> Abort(Exitting)
             [] OTHER -> term' = InvalidLine /\ UNCHANGED <<at, memory, out, i, panic>>
    /\ UNCHANGED <<asm, idx, symbols, asmBreaks, program, breakpoints, pc, inst, checked,
                   codec>>

DebugCommand == \E line \in Commands : Debug(line)

-----------------------------------------------------------------------------
(* Instruction records, as the struct literals of asm.rs and of a caller build them *)

Add(lhs, rhs, o) == [kind |-> "ZeroPageAdd", lhs |-> lhs, rhs |-> rhs, out |-> o]

And(lhs, rhs, o) == [kind |-> "ZeroPageAnd", lhs |-> lhs, rhs |-> rhs, out |-> o]

Or(lhs, rhs, o) == [kind |-> "ZeroPageOr", lhs |-> lhs, rhs |-> rhs, out |-> o]

Xor(lhs, rhs, o) == [kind |-> "ZeroPageXor", lhs |-> lhs, rhs |-> rhs, out |-> o]

Negate(input, o) == [kind |-> "ZeroPageNegate", input |-> input, out |-> o]

ImmediateLoad(addr, imm) == [kind |-> "ZeroPageImmediateLoad", addr |-> addr, imm |-> imm]

Load(from, to) == [kind |-> "ZeroPageLoad", from |-> from, to |-> to]

Store(from, to) == [kind |-> "ZeroPageStore", from |-> from, to |-> to]

LoadIfPos(cond, from, to) ==
    [kind |-> "ZeroPageLoadIfPos", cond |-> cond, from |-> from, to |-> to]

-----------------------------------------------------------------------------
(* The machine alone: built with Machine::default().set(..).program(..).breakpoint(..) *)

Base == 32768

\* single instructions loaded at Base: every kind, writes to PC, device writes,
\* self-modification, and bytes that are no opcode
Insts ==
    { to_bytes(x) : x \in
        { Add(1, 2, 3), Add(1, 2, 0), Add(1, 1, 1), Add(0, 0, 0), Add(2, 2, 0),
          And(1, 2, 3), And(1, 2, 0), Or(1, 2, 3), Or(2, 2, 0), Xor(1, 2, 3), Xor(1, 1, 0),
          Negate(1, 3), Negate(2, 0), Negate(1, 1),
          Load(1, 3), Load(Base, 3), Load(2, 0), Load(DATA, 3), Load(0, 0),
          Store(1, DATA), Store(1, WRITING), Store(2, WRITING), Store(1, Base + 1),
          Store(2, 0), Store(1, 3), Store(1, 300),
          ImmediateLoad(0, Base), ImmediateLoad(0, Base + 1), ImmediateLoad(3, 4660),
          ImmediateLoad(0, 0), ImmediateLoad(0, 65535), ImmediateLoad(0, 36864),
          LoadIfPos(1, 2, 3), LoadIfPos(2, 1, 3), LoadIfPos(1, 2, 0), LoadIfPos(3, 1, 2),
          LoadIfPos(2, 2, 0) } }
    \cup { from_be_bytes(<<b, 1, 2, 3>>) : b \in {3, 7, 8, 11, 13, 16, 255} }

\* the instructions that programs of several words are made of
CoreInsts ==
    { to_bytes(x) : x \in
        { Store(1, DATA), Store(2, WRITING), ImmediateLoad(0, Base), ImmediateLoad(3, 1),
          Add(1, 2, 1), Load(2, 0) } }

RECURSIVE SeqsUpTo(_, _)
SeqsUpTo(S, n) ==
    IF n = 0 THEN {<<>>}
    ELSE LET shorter == SeqsUpTo(S, n - 1)
         IN  shorter \cup { Append(t, x) : t \in shorter, x \in S }

Programs == { <<w>> : w \in Insts } \cup (SeqsUpTo(CoreInsts, MaxProg) \ {<<>>})

\* values set in cells 1 and 2 before the run
Presets ==
    { <<W(0, 5), W(0, 7)>>, <<W(0, 65), W(0, 1)>>, <<W(65535, 65535), W(0, 1)>>,
      <<W(32768, 0), W(32768, 0)>>, <<Zero, W(0, Base)>>, <<W(1, Base), W(32767, 65535)>> }

BreakpointLists == { <<>>, <<Base>>, <<Base + 1, Base>> }

InitMachine ==
    /\ asm = <<>>
    /\ idx = 0
    /\ symbols = <<>>
    /\ asmBreaks = <<>>
    /\ program \in Programs
    /\ \E regs \in Presets :
          memory = LoadProgram(write(write(write(EmptyMemory, PC, U32(Base)), 1, regs[1]),
                                     2, regs[2]),
                               program, Base)
    /\ breakpoints \in BreakpointLists
    /\ at = "top"
    /\ pc = 0
    /\ inst = Zero
    /\ i = 0
    /\ out = <<>>
    /\ term = NoLine
    /\ panic = ""
    /\ checked \in BOOLEAN
    /\ codec = <<>>

NextMachine == Fetch \/ DebugCommand \/ Exec

SpecMachine == InitMachine /\ [][NextMachine]_vars

-----------------------------------------------------------------------------
(* Assembler: operand, add_inst *)

\* HashMap::new and HashMap::insert
EmptyMap == [k \in {} |-> 0]

insert(map, key, value) ==
    [k \in DOMAIN map \cup {key} |-> IF k = key THEN value ELSE map[k]]

Value(n) == [panic |-> "", value |-> n]

NoValue(msg) == [panic |-> msg, value |-> 0]

\* operand with a symbol that is not in the map evaluated to 0
RECURSIVE operand_default(_, _, _)
operand_default(word, some, map) ==
    IF StartsWith(word, <<"0", "x">>)
    THEN LET n == from_str_radix(Skip(word, 2), 16, U64Max)
         IN  IF n.ok THEN Value(n.value) ELSE NoValue(UnwrapErr)
    ELSE IF StartsWith(word, <<":">>)
    THEN operand_default(Skip(word, 1), some, map)
    ELSE IF word = <<>>
    THEN NoValue(UnwrapNone)
    ELSE IF IsAsciiDigit(word[1])
    THEN LET n == from_str_radix(word, 10, U64Max)
         IN  IF n.ok THEN Value(n.value) ELSE NoValue(UnwrapErr)
    ELSE IF ~some THEN Value(0)
    ELSE IF word \in DOMAIN map THEN Value(map[word])
    ELSE Value(0)

\* operand(word, symbols): `some` tells whether symbols is Some(map) or None
RECURSIVE operand(_, _, _)
operand(word, some, map) ==
    IF StartsWith(word, <<"0", "x">>)
    THEN LET n == from_str_radix(Skip(word, 2), 16, U64Max)
         IN  IF n.ok THEN Value(n.value) ELSE NoValue(UnwrapErr)
    ELSE IF StartsWith(word, <<":">>)
    THEN operand(Skip(word, 1), some, map)
    ELSE IF word = <<>>
    THEN NoValue(UnwrapNone)
    ELSE IF IsAsciiDigit(word[1])
    THEN LET n == from_str_radix(word, 10, U64Max)
         IN  IF n.ok THEN Value(n.value) ELSE NoValue(UnwrapErr)
    ELSE IF ~some THEN Value(0)
    ELSE IF word \in DOMAIN map THEN Value(map[word])
    ELSE NoValue(UnwrapNone)

M_ADD == <<"A", "D", "D">>
M_NEG == <<"N", "E", "G">>
M_AND == <<"A", "N", "D">>
M_OR == <<"O", "R">>
M_XOR == <<"X", "O", "R">>
M_L == <<"L">>
M_S == <<"S">>
M_LI == <<"L", "I">>
M_LP == <<"L", "P">>

Mnemonics == {M_ADD, M_NEG, M_AND, M_OR, M_XOR, M_L, M_S, M_LI, M_LP}

\* the number of operands the arm of a mnemonic evaluates
Arity(opcode) == IF opcode \in {M_NEG, M_L, M_S, M_LI} THEN 2 ELSE 3

\* the closure `operand(i)`: words.nth(i).unwrap(), then operand of it
Nth(words, n, some, map) ==
    IF Len(words) < n + 1 THEN NoValue(UnwrapNone) ELSE operand(words[n + 1], some, map)

\* the struct literals with S's `to` cast `as u8`
Literal_narrow(opcode, v) ==
    CASE opcode = M_ADD -> Add(v[1] % 256, v[2] % 256, v[3] % 256)
      [] opcode = M_NEG -> Negate(v[1] % 256, v[2] % 256)
      [] opcode = M_AND -> And(v[1] % 256, v[2] % 256, v[3] % 256)
      [] opcode = M_OR -> Or(v[1] % 256, v[2] % 256, v[3] % 256)
      [] opcode = M_XOR -> Xor(v[1] % 256, v[2] % 256, v[3] % 256)
      [] opcode = M_L -> Load(v[1] % U16, v[2] % 256)
      [] opcode = M_S -> Store(v[1] % 256, v[2] % 256)
      [] opcode = M_LI -> ImmediateLoad(v[1] % 256, v[2] % U16)
      [] opcode = M_LP -> LoadIfPos(v[1] % 256, v[2] % 256, v[3] % 256)

\* the struct literal of a mnemonic's arm, its fields cast with `as u8` / `as u16`
Literal(opcode, v) ==
    CASE opcode = M_ADD -> Add(v[1] % 256, v[2] % 256, v[3] % 256)
      [] opcode = M_NEG -> Negate(v[1] % 256, v[2] % 256)
      [] opcode = M_AND -> And(v[1] % 256, v[2] % 256, v[3] % 256)
      [] opcode = M_OR -> Or(v[1] % 256, v[2] % 256, v[3] % 256)
      [] opcode = M_XOR -> Xor(v[1] % 256, v[2] % 256, v[3] % 256)
      [] opcode = M_L -> Load(v[1] % U16, v[2] % 256)
      [] opcode = M_S -> Store(v[1] % 256, v[2] % U16)
      [] opcode = M_LI -> ImmediateLoad(v[1] % 256, v[2] % U16)
      [] opcode = M_LP -> LoadIfPos(v[1] % 256, v[2] % 256, v[3] % 256)

\* Program::push
push(prog, x) == Append(prog, to_bytes(x))

\* add_inst that returns the program as it is for a mnemonic it does not know
add_inst_lenient(line, prog, some, map) ==
    LET words == Split(line, " ")
        opcode == words[1]
        ops == [n \in 1..3 |-> Nth(words, n, some, map)]
        failed == { n \in 1..Arity(opcode) : ops[n].panic # "" }
    IN  IF opcode \notin Mnemonics THEN [panic |-> "", program |-> prog]
        ELSE IF failed # {}
        THEN [panic |-> ops[CHOOSE n \in failed : \A m \in failed : n <= m].panic,
              program |-> prog]
        ELSE [panic |-> "",
              program |-> push(prog, Literal(opcode, [n \in 1..3 |-> ops[n].value]))]

\* add_inst(line, program, symbols): the program with the line's instruction pushed,
\* or the panic of the first operand that fails
add_inst(line, prog, some, map) ==
    LET words == Split(line, " ")
        opcode == words[1]
        ops == [n \in 1..3 |-> Nth(words, n, some, map)]
        failed == { n \in 1..Arity(opcode) : ops[n].panic # "" }
    IN  IF opcode \notin Mnemonics THEN [panic |-> UnknownOpcode, program |-> prog]
        ELSE IF failed # {}
        THEN [panic |-> ops[CHOOSE n \in failed : \A m \in failed : n <= m].panic,
              program |-> prog]
        ELSE [panic |-> "",
              program |-> push(prog, Literal(opcode, [n \in 1..3 |-> ops[n].value]))]

-----------------------------------------------------------------------------
(* Assembler: the two folds of assemble over asm.split('\n') *)

\* the address taken after the line's instruction is counted
Here_after(prog) ==
    LET sum == Base + ((Len(prog) + 1) % U16)
    IN  [value |-> sum % U16, overflow |-> sum >= U16]

\* `0x8000 + program.len() as Address`: u16 addition
Here(prog) ==
    LET sum == Base + (Len(prog) % U16)
    IN  [value |-> sum % U16, overflow |-> sum >= U16]

\* whether the first word of the trimmed line ends with ':'
Labelled(line) == EndsWith(Split(line, " ")[1], ":")

\* the label's name: the first word without its last character
LabelName(line) == LET w == Split(line, " ")[1] IN SubSeq(w, 1, Len(w) - 1)

\* the line without its first word, trimmed
StripLabel(line) == Trim(Join(Tail(Split(line, " ")), " "))

Marked(line) == StartsWith(line, <<"~">>)

StripMarker(line) == Trim(Skip(line, 1))

\* the text add_inst gets for a non-empty line: trimmed, label and marker stripped
Instruction(line) ==
    LET trimmed == Trim(line)
        unlabelled == IF Labelled(trimmed) THEN StripLabel(trimmed) ELSE trimmed
    IN  IF Marked(unlabelled) THEN StripMarker(unlabelled) ELSE unlabelled

AbortAssembly(msg) ==
    /\ at' = "aborted"
    /\ panic' = msg
    /\ UNCHANGED <<idx, symbols, asmBreaks, program>>

\* the closure of the first fold applied to line idx
Pass1Line ==
    /\ at = "pass1"
    /\ LET lines == Split(asm, "\n")
           line == lines[idx]
           trimmed == Trim(line)
           here == Here(program)
           unlabelled == IF Labelled(trimmed) THEN StripLabel(trimmed) ELSE trimmed
           added == add_inst(Instruction(line), program, FALSE, EmptyMap)
           last == idx = Len(lines)
       IN  IF line = <<>>
           THEN /\ at' = IF last THEN "pass2" ELSE "pass1"
                /\ idx' = IF last THEN 1 ELSE idx + 1
                /\ program' = IF last THEN <<>> ELSE program
                /\ UNCHANGED <<symbols, asmBreaks, panic>>
           ELSE IF (Labelled(trimmed) \/ Marked(unlabelled)) /\ here.overflow /\ checked
           THEN AbortAssembly(AddOverflow)
           ELSE IF added.panic # ""
           THEN AbortAssembly(added.panic)
           ELSE /\ symbols' = IF Labelled(trimmed)
                              THEN insert(symbols, LabelName(trimmed), here.value)
                              ELSE symbols
                /\ asmBreaks' = IF Marked(unlabelled)
                                THEN Append(asmBreaks, here.value)
                                ELSE asmBreaks
                /\ at' = IF last THEN "pass2" ELSE "pass1"
                /\ idx' = IF last THEN 1 ELSE idx + 1
                /\ program' = IF last THEN <<>> ELSE added.program
                /\ UNCHANGED panic
    /\ UNCHANGED <<asm, memory, breakpoints, pc, inst, i, out, term, checked, codec>>

\* the closure of the second fold applied to line idx; after the last line assemble returns
Pass2Line ==
    /\ at = "pass2"
    /\ LET lines == Split(asm, "\n")
           line == lines[idx]
           added == add_inst(Instruction(line), program, TRUE, symbols)
           last == idx = Len(lines)
       IN  IF line = <<>>
           THEN /\ at' = IF last THEN "main" ELSE "pass2"
                /\ idx' = IF last THEN idx ELSE idx + 1
                /\ UNCHANGED <<program, panic>>
           ELSE IF added.panic # ""
           THEN /\ AbortAssembly(added.panic)
           ELSE /\ at' = IF last THEN "main" ELSE "pass2"
                /\ idx' = IF last THEN idx ELSE idx + 1
                /\ program' = added.program
                /\ UNCHANGED panic
    /\ UNCHANGED <<asm, symbols, asmBreaks, memory, breakpoints, pc, inst, i, out, term,
                   checked, codec>>

\* the fold without the implicit breakpoint
MachineBreakpoints_explicit(returned) == returned

\* the fold left out: only the breakpoint at 0x8000
MachineBreakpoints_implicit(returned) == <<Base>>

\* the fold of Machine::breakpoint over 0x8000 and the addresses assemble returned
MachineBreakpoints(returned) == <<Base>> \o returned

\* main: build the machine from what assemble returned, and enter run
Main ==
    /\ at = "main"
    /\ IF Len(program) > U16 - Base
       THEN /\ at' = "aborted"
            /\ panic' = "range end index out of range for slice"
            /\ UNCHANGED <<memory, breakpoints>>
       ELSE /\ memory' = LoadProgram(write(EmptyMemory, PC, U32(Base)), program, Base)
            /\ breakpoints' = MachineBreakpoints(asmBreaks)
            /\ at' = "top"
            /\ UNCHANGED panic
    /\ UNCHANGED <<asm, idx, symbols, asmBreaks, program, pc, inst, i, out, term, checked,
                   codec>>

-----------------------------------------------------------------------------
(* The whole program: assemble a source, build the machine, run it *)

T_0 == <<"0">>
T_1 == <<"1">>
T_2 == <<"2">>
T_3 == <<"3">>
T_9 == <<"9">>
T_300 == <<"3", "0", "0">>
T_x41 == <<"0", "x", "4", "1">>
T_x1FF == <<"0", "x", "1", "F", "F">>
T_xFFFF == <<"0", "x", "F", "F", "F", "F">>
T_xfffe == <<"0", "x", "f", "f", "f", "e">>
T_loop == <<"l", "o", "o", "p">>
T_end == <<"e", "n", "d">>
T_FOO == <<"F", "O", "O">>

Colon(t) == t \o <<":">>

\* the lines sources are made of
SourceLines ==
    { Join(<<M_LI, T_1, T_x41>>, " "),
      Join(<<M_S, T_1, T_xFFFF>>, " "),
      Join(<<M_S, T_1, T_xfffe>>, " "),
      Join(<<Colon(T_loop), M_LI, T_0, T_loop>>, " "),
      Join(<<M_LI, T_0, T_end>>, " "),
      Join(<<Colon(T_end), <<"~">> \o M_ADD, T_1, T_1, T_2>>, " "),
      Join(<<<<"~">> \o M_NEG, T_1, T_2>>, " "),
      Join(<<<<"~">>, M_OR, T_1, T_2, T_3>>, " "),
      Join(<<M_L, <<":">> \o T_loop, T_3>>, " "),
      Join(<<Colon(T_end), M_AND, T_end, T_1, T_2>>, " "),
      Join(<<<<>>, <<>>, M_XOR, T_300, T_x1FF, T_2, T_9>>, " "),
      Join(<<M_LP, T_1, T_2, T_3>>, " ") \o <<"\r">>,
      Join(<<T_FOO, T_1, T_2>>, " "),
      Join(<<M_NEG, T_1>>, " "),
      Colon(T_loop),
      <<>>,
      <<" ", " ">> }

\* asm: up to MaxLines lines joined by '\n'
Sources == { Join(ls, "\n") : ls \in SeqsUpTo(SourceLines, MaxLines) \ {<<>>} }

Init ==
    /\ asm \in Sources
    /\ at = "pass1"
    /\ idx = 1
    /\ symbols = EmptyMap
    /\ asmBreaks = <<>>
    /\ program = <<>>
    /\ memory = EmptyMemory
    /\ breakpoints = <<>>
    /\ pc = 0
    /\ inst = Zero
    /\ i = 0
    /\ out = <<>>
    /\ term = NoLine
    /\ panic = ""
    /\ checked \in BOOLEAN
    /\ codec = <<>>

Next == Pass1Line \/ Pass2Line \/ Main \/ Fetch \/ DebugCommand \/ Exec

Spec == Init /\ [][Next]_vars

-----------------------------------------------------------------------------
(* The codec alone: encode a record, decode the word *)

\* values of the u8 fields and of the u16 fields
Bytes == {0, 1, 65, 128, 255}

Shorts == {0, 1, 255, 256, 4660, 32768, 65534, 65535}

Records ==
    { Add(a, b, c) : a \in Bytes, b \in Bytes, c \in Bytes }
    \cup { And(a, b, c) : a \in Bytes, b \in Bytes, c \in Bytes }
    \cup { Or(a, b, c) : a \in Bytes, b \in Bytes, c \in Bytes }
    \cup { Xor(a, b, c) : a \in Bytes, b \in Bytes, c \in Bytes }
    \cup { LoadIfPos(a, b, c) : a \in Bytes, b \in Bytes, c \in Bytes }
    \cup { Negate(a, b) : a \in Bytes, b \in Bytes }
    \cup { ImmediateLoad(a, n) : a \in Bytes, n \in Shorts }
    \cup { Load(n, a) : n \in Shorts, a \in Bytes }
    \cup { Store(a, n) : a \in Bytes, n \in Shorts }

InitCodec ==
    /\ codec \in { <<x>> : x \in Records }
    /\ at = "codec"
    /\ asm = <<>>
    /\ idx = 0
    /\ symbols = EmptyMap
    /\ asmBreaks = <<>>
    /\ program = <<>>
    /\ memory = EmptyMemory
    /\ breakpoints = <<>>
    /\ pc = 0
    /\ inst = Zero
    /\ i = 0
    /\ out = <<>>
    /\ term = NoLine
    /\ panic = ""
    /\ checked = FALSE

\* x.to_bytes()
Encode ==
    /\ at = "codec"
    /\ Len(codec) = 1
    /\ codec' = Append(codec, to_bytes(codec[1]))
    /\ UNCHANGED <<asm, at, idx, symbols, asmBreaks, program, memory, breakpoints, pc, inst,
                   i, out, term, panic, checked>>

\* T::from_bytes(&word) for the type T of the record
Decode ==
    /\ at = "codec"
    /\ Len(codec) = 2
    /\ codec' = Append(codec, from_bytes(codec[1].kind, codec[2]))
    /\ UNCHANGED <<asm, at, idx, symbols, asmBreaks, program, memory, breakpoints, pc, inst,
                   i, out, term, panic, checked>>

NextCodec == Encode \/ Decode

SpecCodec == InitCodec /\ [][NextCodec]_vars

-----------------------------------------------------------------------------
(* Section 4.1: the opcode and the operand layout of each kind, as the table gives them *)

TableOpcode(kind) ==
    CASE kind = "ZeroPageAdd" -> 0
      [] kind = "ZeroPageNegate" -> 1
      [] kind = "ZeroPageAnd" -> 2
      [] kind = "ZeroPageOr" -> 4
      [] kind = "ZeroPageXor" -> 5
      [] kind = "ZeroPageLoad" -> 6
      [] kind = "ZeroPageStore" -> 9
      [] kind = "ZeroPageImmediateLoad" -> 10
      [] kind = "ZeroPageLoadIfPos" -> 12

\* the three operand bytes of a record: u8 fields as they are, u16 fields low byte first
TableBytes(x) ==
    CASE x.kind \in {"ZeroPageAdd", "ZeroPageAnd", "ZeroPageOr", "ZeroPageXor"} ->
            <<x.lhs, x.rhs, x.out>>
      [] x.kind = "ZeroPageNegate" -> <<x.input, x.out, 0>>
      [] x.kind = "ZeroPageLoad" -> <<x.from % 256, x.from \div 256, x.to>>
      [] x.kind = "ZeroPageStore" -> <<x.from, x.to % 256, x.to \div 256>>
      [] x.kind = "ZeroPageImmediateLoad" -> <<x.addr, x.imm % 256, x.imm \div 256>>
      [] x.kind = "ZeroPageLoadIfPos" -> <<x.cond, x.from, x.to>>

\* C5: for every kind and every value of its fields, from_bytes(to_bytes(x)) is x
\* field for field, and the word to_bytes gives has the kind's opcode as its most
\* significant byte and the operand bytes after it, 16-bit fields low byte first.
C5_RoundTrip ==
    /\ Len(codec) >= 2 =>
          to_be_bytes(codec[2]) = <<TableOpcode(codec[1].kind)>> \o TableBytes(codec[1])
    /\ Len(codec) = 3 => codec[3] = codec[1]

\* a 16-bit field with distinct bytes has been encoded and decoded
C5_Witness ==
    /\ Len(codec) = 3
    /\ codec[1] = Store(65, 4660)
    /\ to_be_bytes(codec[2]) = <<9, 65, 52, 18>>
    /\ codec[3].to = 4660

-----------------------------------------------------------------------------
(* Claims about one step of Machine::run *)

\* the memory after the executed instruction, before the device check and the PC advance
AfterInstruction == Execute(memory, read(memory, pc), checked).mem

\* a step of run that completes: from the fetch of the word to the top of the loop
CompletedStep == at = "exec" /\ at' = "top"

\* the fetch address one word further, as run computes it and as the next fetch reads it
NextWord == W((pc + 1) \div 65536, (pc + 1) % 65536)

\* C1: in every step whose executed instruction leaves the PC cell unchanged, the PC
\* cell holds the fetch address + 1 at the end of the step, and the next fetch
\* address is the following address.
C1_Advance ==
    /\ [][CompletedStep /\ read(AfterInstruction, PC) = read(memory, PC)
            => read(memory', PC) = NextWord]_vars
    /\ [][at = "top" /\ at' # "top" => pc' = read(memory, PC).lo]_vars

\* an ADD whose out is cell 3 ran at 0x8000 and PC is 0x8001
C1_Witness ==
    /\ at = "top"
    /\ i = 1
    /\ inst = to_bytes(Add(1, 2, 3))
    /\ pc = Base
    /\ read(memory, PC) = W(0, Base + 1)

\* the address the instruction in `word` writes: its out, to or addr field
OutAddr(word) ==
    LET b == to_be_bytes(word)
    IN  CASE b[1] \in {0, 2, 4, 5, 6, 12} -> b[4]
          [] b[1] = 1 -> b[3]
          [] b[1] = 9 -> b[3] + 256 * b[4]
          [] b[1] = 10 -> b[2]
          [] OTHER -> -1

\* whether the instruction in `word` writes its target in memory mem
Writes(mem, word) ==
    LET b == to_be_bytes(word)
    IN  /\ OutAddr(word) >= 0
        /\ b[1] = 12 => (read(mem, b[2]).hi < 32768 /\ read(mem, b[2]) # Zero)

\* a completed step whose instruction wrote the PC cell
JumpStep == CompletedStep /\ OutAddr(read(memory, pc)) = PC /\ Writes(memory, read(memory, pc))

\* C2: after every instruction whose output address is PC and that wrote the value v,
\* the PC cell holds v at the end of the step (the engine does not advance it).
C2_Original == [][JumpStep => read(memory', PC) = read(AfterInstruction, PC)]_vars

\* whether address a is in the breakpoint list
IsBreakpoint(a) == \E k \in 1..Len(breakpoints) : breakpoints[k] = a

\* C3: whenever the fetch address is a breakpoint the machine enters Debugging with
\* memory and device output as the previous step left them, they stay so while it is
\* Debugging, and after continue the word executed is the one at the breakpoint address.
C3_Breakpoint ==
    /\ [][at = "top" /\ at' # "top" /\ IsBreakpoint(read(memory, PC).lo)
            => at' = "debug" /\ pc' = read(memory, PC).lo /\ memory' = memory /\ out' = out]_vars
    /\ [][at = "debug" /\ at' # "aborted"
            => at' \in {"debug", "exec"} /\ pc' = pc /\ memory' = memory /\ out' = out]_vars
    /\ [](at = "debug" => pc = read(memory, PC).lo /\ IsBreakpoint(pc))
    /\ [][at = "exec" /\ at' # "exec" => inst' = read(memory, pc)]_vars

\* the breakpoint at 0x8000 was hit a second time, and continue was given
C3_Witness ==
    /\ at = "exec"
    /\ i = 2
    /\ pc = Base
    /\ IsBreakpoint(Base)
    /\ term.fmt = "Hit breakpoint at 0x{:04x}"

\* C4: in every completed step, if WRITING is nonzero after the instruction then the
\* low 8 bits of DATA are emitted as one character and WRITING is 0 at the end of the
\* step, and otherwise nothing is emitted; nothing else emits; WRITING is 0 at every
\* step boundary after the first step.
C4_Device ==
    /\ [][CompletedStep /\ read(AfterInstruction, WRITING) # Zero
            => /\ out' = Append(out, read(AfterInstruction, DATA).lo % 256)
               /\ read(memory', WRITING) = Zero]_vars
    /\ [][CompletedStep /\ read(AfterInstruction, WRITING) = Zero => out' = out]_vars
    /\ [][~CompletedStep => out' = out]_vars
    /\ [](at = "top" /\ i > 0 => read(memory, WRITING) = Zero)

\* S 1 0xFFFF then S 2 0xFFFE, with 'A' in cell 1 and 1 in cell 2, printed one 'A'
C4_Witness ==
    /\ at = "top"
    /\ i = 2
    /\ out = <<65>>
    /\ inst = to_bytes(Store(2, WRITING))
    /\ read(memory, DATA) = W(0, 65)
    /\ read(memory, WRITING) = Zero

\* C9: a step whose fetched word has both low bits of its leading byte set aborts with
\* the not-supported panic and changes neither memory nor output; no other fetched
\* word gives that panic, and its instruction is one word long: when it leaves PC
\* alone the step ends with PC one word further.
C9_VLE ==
    /\ [][at = "exec" /\ at' # "exec" /\ to_be_bytes(read(memory, pc))[1] % 4 = 3
            => at' = "aborted" /\ panic' = NotSupported /\ memory' = memory /\ out' = out]_vars
    /\ [][at = "exec" /\ at' # "exec" /\ to_be_bytes(read(memory, pc))[1] % 4 # 3
            => /\ panic' # NotSupported
               /\ (at' = "top" /\ read(AfterInstruction, PC) = read(memory, PC)
                     => read(memory', PC) = NextWord)]_vars

\* the word with leading byte 7 was fetched and the process aborted
C9_Witness ==
    /\ at = "aborted"
    /\ panic = NotSupported
    /\ inst = from_be_bytes(<<7, 1, 2, 3>>)
    /\ i = 0

-----------------------------------------------------------------------------
(* Claims about assemble and main *)

SourceLinesOf == Split(asm, "\n")

\* the lines that are not skipped: each is given to add_inst
NonBlank == { k \in 1..Len(SourceLinesOf) : SourceLinesOf[k] # <<>> }

\* the number of instruction lines before line k
Preceding(k) == Cardinality({ j \in NonBlank : j < k })

\* mnemonic and operands of line k
Tokens(k) == Split(Instruction(SourceLinesOf[k]), " ")

Defines(k, name) ==
    /\ k \in NonBlank
    /\ Labelled(Trim(SourceLinesOf[k]))
    /\ LabelName(Trim(SourceLinesOf[k])) = name

Labels == { LabelName(Trim(SourceLinesOf[k])) : k \in { j \in NonBlank : Labelled(Trim(SourceLinesOf[j])) } }

\* the line that defines the label; of several lines that define it, the last
DefLine(name) == CHOOSE k \in NonBlank : Defines(k, name) /\ \A j \in NonBlank : Defines(j, name) => j <= k

LabelAddress(name) == 32768 + Preceding(DefLine(name))

\* a token the operand grammar looks up as a symbol
BareIdentifier(tok) ==
    /\ tok # <<>>
    /\ ~(Len(tok) >= 2 /\ tok[1] = "0" /\ tok[2] = "x")
    /\ tok[1] \notin {":", "0", "1", "2", "3", "4", "5", "6", "7", "8", "9"}

\* the operand fields of an encoded instruction, in the order the assembler takes them
OperandFields(word) ==
    LET b == to_be_bytes(word)
    IN  CASE b[1] = 6 -> <<b[2] + 256 * b[3], b[4]>>
          [] b[1] \in {9, 10} -> <<b[2], b[3] + 256 * b[4]>>
          [] b[1] = 1 -> <<b[2], b[3]>>
          [] OTHER -> <<b[2], b[3], b[4]>>

\* 2^width of operand field n of the instruction with that leading byte
FieldRange(opcode, n) ==
    IF (opcode = 6 /\ n = 1) \/ (opcode \in {9, 10} /\ n = 2) THEN 65536 ELSE 256

\* C6: after pass 1 every label is recorded at 0x8000 + the number of instructions
\* preceding its defining line (the last such line, for a label defined more than
\* once); pass 2 emits the labelled instruction at that position; and in the program
\* assemble returns, every operand that is a bare identifier naming a label holds
\* that address (cut to its field), whether the label is defined before or after.
C6_Labels ==
    /\ at \in {"pass2", "main"} =>
          \A name \in Labels : BareIdentifier(name) =>
              name \in DOMAIN symbols /\ symbols[name] = LabelAddress(name)
    /\ at = "pass2" /\ idx \in NonBlank =>
          \A name \in Labels : DefLine(name) = idx => 32768 + Len(program) = symbols[name]
    /\ at = "main" =>
          \A k \in NonBlank : \A n \in 1..Len(OperandFields(program[Preceding(k) + 1])) :
              LET word == program[Preceding(k) + 1]
                  tok == Tokens(k)[n + 1]
              IN  tok \in Labels /\ BareIdentifier(tok) =>
                      OperandFields(word)[n]
                          = LabelAddress(tok) % FieldRange(to_be_bytes(word)[1], n)

Source_Forward ==
    Join(<<Join(<<M_LI, T_0, T_end>>, " "),
           Join(<<Colon(T_end), <<"~">> \o M_ADD, T_1, T_1, T_2>>, " ")>>, "\n")

\* "LI 0 end" before "end: ~ADD 1 1 2": the forward reference was emitted as 0x8001
C6_Witness ==
    /\ at = "main"
    /\ asm = Source_Forward
    /\ OperandFields(program[1]) = <<0, 32769>>

\* the record a caller builds by hand for line k: the kind its mnemonic names, each
\* operand cut to the width of its field
HandBuilt(k) ==
    LET t == Tokens(k)
        v == [n \in 1..3 |-> IF Len(t) > n THEN operand(t[n + 1], TRUE, symbols).value ELSE 0]
    IN  CASE t[1] = M_ADD ->
                [kind |-> "ZeroPageAdd", lhs |-> v[1] % 256, rhs |-> v[2] % 256, out |-> v[3] % 256]
          [] t[1] = M_NEG ->
                [kind |-> "ZeroPageNegate", input |-> v[1] % 256, out |-> v[2] % 256]
          [] t[1] = M_AND ->
                [kind |-> "ZeroPageAnd", lhs |-> v[1] % 256, rhs |-> v[2] % 256, out |-> v[3] % 256]
          [] t[1] = M_OR ->
                [kind |-> "ZeroPageOr", lhs |-> v[1] % 256, rhs |-> v[2] % 256, out |-> v[3] % 256]
          [] t[1] = M_XOR ->
                [kind |-> "ZeroPageXor", lhs |-> v[1] % 256, rhs |-> v[2] % 256, out |-> v[3] % 256]
          [] t[1] = M_L ->
                [kind |-> "ZeroPageLoad", from |-> v[1] % 65536, to |-> v[2] % 256]
          [] t[1] = M_S ->
                [kind |-> "ZeroPageStore", from |-> v[1] % 256, to |-> v[2] % 65536]
          [] t[1] = M_LI ->
                [kind |-> "ZeroPageImmediateLoad", addr |-> v[1] % 256, imm |-> v[2] % 65536]
          [] t[1] = M_LP ->
                [kind |-> "ZeroPageLoadIfPos", cond |-> v[1] % 256, from |-> v[2] % 256,
                 to |-> v[3] % 256]

\* C7: the program assemble returns holds one word per instruction line, in source
\* order, and the word of a line is to_bytes of the record built by hand from the
\* line's mnemonic and operands.
C7_Emission ==
    at = "main" =>
        /\ Len(program) = Cardinality(NonBlank)
        /\ \A k \in NonBlank : program[Preceding(k) + 1] = to_bytes(HandBuilt(k))

Source_Truncated ==
    Join(<<Join(<<<<>>, <<>>, M_XOR, T_300, T_x1FF, T_2, T_9>>, " "),
           Join(<<M_S, T_1, T_xFFFF>>, " ")>>, "\n")

\* "  XOR 300 0x1FF 2 9" then "S 1 0xFFFF": two words, operands cut to their fields
C7_Witness ==
    /\ at = "main"
    /\ asm = Source_Truncated
    /\ program = <<from_be_bytes(<<5, 44, 255, 2>>), from_be_bytes(<<9, 1, 255, 255>>)>>

\* a line given to add_inst whose mnemonic is none of the nine
BadMnemonic == \E k \in NonBlank : Tokens(k)[1] \notin Mnemonics

\* C8: when a line of the source has an unknown mnemonic, assemble never returns (it
\* aborts in pass 1), so no machine is built and nothing executes.
C8_UnknownMnemonic ==
    BadMnemonic =>
        /\ at \in {"pass1", "aborted"}
        /\ at = "aborted" => panic # ""
        /\ memory = EmptyMemory
        /\ breakpoints = <<>>
        /\ i = 0
        /\ out = <<>>

\* the second line has the unknown mnemonic: the first was parsed, then the abort
C8_Witness ==
    /\ at = "aborted"
    /\ panic = UnknownOpcode
    /\ idx = 2
    /\ Len(program) = 1
    /\ Tokens(2)[1] = T_FOO

\* the set of addresses of a Vec<Address>
Elements(vec) == { vec[k] : k \in 1..Len(vec) }

\* C10: when run starts, word i of the program is at 0x8000 + i, PC holds 0x8000 and
\* the breakpoints are 0x8000 and the addresses assemble returned; the first step of
\* run enters Debugging at 0x8000 with memory untouched and nothing printed by the
\* device, whatever the program.
C10_Start ==
    /\ [](at = "top" /\ i = 0 =>
            /\ read(memory, PC) = W(0, 32768)
            /\ \A k \in 1..Len(program) : read(memory, 32768 + k - 1) = program[k]
            /\ Elements(breakpoints) = {32768} \cup Elements(asmBreaks))
    /\ [][at = "main" /\ at' # "aborted" => at' = "top" /\ i' = 0]_vars
    /\ [][at = "top" /\ i = 0 /\ at' # "top"
            => at' = "debug" /\ pc' = 32768 /\ memory' = memory /\ out' = <<>>]_vars

\* a program of two lines without `~`: the debugger was entered at 0x8000 before any step
C10_Witness ==
    /\ at = "debug"
    /\ i = 0
    /\ pc = Base
    /\ asmBreaks = <<>>
    /\ Len(program) = 2
    /\ inst = Zero
    /\ out = <<>>

-----------------------------------------------------------------------------
(* Claims about Machine::debug *)

\* C11: from the entry into Machine::debug to the step that leaves it, by continue,
\* by exit or by a panic, every memory cell (PC, WRITING and DATA among them) and
\* the breakpoint list stay as they were, whatever commands are read.
C11_DebugFrame ==
    /\ [][at' = "debug" \/ at = "debug"
            => memory' = memory /\ breakpoints' = breakpoints]_vars
    /\ [][at = "debug" => read(memory', PC) = read(memory, PC)
                           /\ read(memory', WRITING) = read(memory, WRITING)
                           /\ read(memory', DATA) = read(memory, DATA)]_vars

\* in the debugger at 0x8000, a read command printed the word of a nonzero cell, which
\* is still in memory
C11_Witness ==
    /\ at = "debug"
    /\ i = 0
    /\ term.fmt = "{:032b}"
    /\ term.arg # Zero
    /\ term.arg = read(memory, Base)
    /\ read(memory, PC) = W(0, Base)

-----------------------------------------------------------------------------
(* Claims about the ways Machine::run stops *)

\* the leading bytes of the nine instructions
DefinedOpcodes == {0, 1, 2, 4, 5, 6, 9, 10, 12}

\* the leading byte of the word at the fetch address
FetchedOpcode == to_be_bytes(read(memory, pc))[1]

\* C12: a step of run that aborts leaves memory (PC included), the device output and
\* the step counter as they were before the step; after an abort no step is taken; a
\* fetched word whose leading byte is a multi-word opcode or none of the nine opcodes
\* aborts the step; every step that does not abort is followed by the top of the
\* loop, and run is never anywhere else than in the loop, the debugger or the abort.
C12_NoPartialFailure ==
    /\ [][at' = "aborted" /\ at \in {"top", "debug", "exec"}
            => panic' # "" /\ memory' = memory /\ out' = out /\ i' = i]_vars
    /\ [][at # "aborted"]_vars
    /\ [][at = "exec" /\ at' # "exec"
              /\ (FetchedOpcode % 4 = 3 \/ FetchedOpcode \notin DefinedOpcodes)
            => at' = "aborted"]_vars
    /\ [][at = "exec" /\ at' # "exec" => at' \in {"top", "aborted"}]_vars
    /\ [](at \in {"top", "debug", "exec", "aborted"})
    /\ [](at # "aborted" => panic = "")

\* after two completed steps the word fetched at address 2 had the leading byte 0x80:
\* the process aborted with PC and the step counter as the second step left them
C12_Witness ==
    /\ at = "aborted"
    /\ panic = UnwrapNone
    /\ i = 2
    /\ pc = 2
    /\ read(memory, pc) = W(32768, 0)
    /\ read(memory, PC) = W(1, 2)

-----------------------------------------------------------------------------
(* Claims about symbols in assemble *)

\* the identifier an operand token names: the token without its leading ':' markers
RECURSIVE Name(_)
Name(tok) ==
    IF Len(tok) >= 2 /\ tok[1] = "0" /\ tok[2] = "x" THEN tok
    ELSE IF tok # <<>> /\ tok[1] = ":" THEN Name(Tail(tok))
    ELSE tok

\* the operand positions the mnemonic of line k evaluates
Consumed(k) == IF Tokens(k)[1] \in Mnemonics THEN 1..Arity(Tokens(k)[1]) ELSE {}

\* line k has an operand that is an identifier no line defines as a label
UndefinedOperand(k) ==
    \E n \in Consumed(k) :
        /\ Len(Tokens(k)) > n
        /\ BareIdentifier(Name(Tokens(k)[n + 1]))
        /\ Name(Tokens(k)[n + 1]) \notin Labels

\* line k has a known mnemonic and all its operands, each an identifier or a literal
\* that parses
WellFormed(k) ==
    /\ Tokens(k)[1] \in Mnemonics
    /\ \A n \in Consumed(k) :
          /\ Len(Tokens(k)) > n
          /\ BareIdentifier(Name(Tokens(k)[n + 1]))
                \/ from_str_radix(IF StartsWith(Name(Tokens(k)[n + 1]), <<"0", "x">>)
                                     THEN Skip(Name(Tokens(k)[n + 1]), 2)
                                     ELSE Name(Tokens(k)[n + 1]),
                                  IF StartsWith(Name(Tokens(k)[n + 1]), <<"0", "x">>)
                                     THEN 16 ELSE 10,
                                  U64Max).ok

\* C13: pass 2 aborts on a line with an operand that is an identifier no label
\* defines, so assemble never returns for such a source, and the machine runs only
\* after assemble has returned; pass 2 aborts on no other line; and pass 1 aborts on
\* no well-formed line, whether its identifiers are defined or not and before or
\* after their use.
C13_UndefinedSymbol ==
    /\ [][at = "pass2" /\ idx \in NonBlank /\ UndefinedOperand(idx)
            => at' = "aborted" /\ panic' = UnwrapNone /\ program' = program]_vars
    /\ [][at = "pass2" /\ at' = "aborted" => idx \in NonBlank /\ UndefinedOperand(idx)]_vars
    /\ [][at = "pass1" /\ idx \in NonBlank /\ WellFormed(idx) => at' # "aborted"]_vars
    /\ [](at = "main" => \A k \in NonBlank : ~UndefinedOperand(k))
    /\ [][at' \in {"top", "debug", "exec"} => at \in {"main", "top", "debug", "exec"}]_vars

Source_Undefined ==
    Join(<<Join(<<M_LI, T_0, T_end>>, " "),
           Join(<<Colon(T_loop), M_LI, T_0, T_loop>>, " ")>>, "\n")

\* "LI 0 end" then "loop: LI 0 loop": pass 1 recorded loop, pass 2 aborted on line 1
C13_Witness ==
    /\ at = "aborted"
    /\ asm = Source_Undefined
    /\ panic = UnwrapNone
    /\ idx = 1
    /\ program = <<>>
    /\ T_loop \in DOMAIN symbols
    /\ T_end \notin DOMAIN symbols

-----------------------------------------------------------------------------
(* Claims about single instructions *)

\* the bytes of the word at the fetch address
FetchedBytes == to_be_bytes(read(memory, pc))

\* the addresses of cells that are nonzero before or after the step; every other
\* cell is zero at both ends
Touched == DOMAIN memory \cup DOMAIN memory'

\* a completed step that executed LP cond from to
LPStep == CompletedStep /\ FetchedBytes[1] = 12

\* mem[cond], read as a signed 32-bit integer, is greater than 0
CondPositive ==
    LET c == read(memory, FetchedBytes[2])
    IN  c.hi < 32768 /\ (c.hi > 0 \/ c.lo > 0)

\* C14: a step that executes LP cond from to completes; when mem[cond] as a signed
\* 32-bit integer is greater than 0 the instruction writes mem[from] to mem[to], and
\* no cell other than mem[to] and PC changes in the step; when mem[cond] is 0 or has
\* its top bit set the instruction writes nothing and the step changes only PC,
\* which becomes the fetch address + 1.
C14_LoadIfPos ==
    /\ [][at = "exec" /\ at' # "exec" /\ FetchedBytes[1] = 12 => at' = "top"]_vars
    /\ [][LPStep /\ CondPositive
            => /\ AfterInstruction
                    = write(memory, FetchedBytes[4], read(memory, FetchedBytes[3]))
               /\ FetchedBytes[4] # PC
                    => read(memory', FetchedBytes[4]) = read(memory, FetchedBytes[3])
               /\ \A a \in Touched \ {PC, FetchedBytes[4]} :
                     read(memory', a) = read(memory, a)]_vars
    /\ [][LPStep /\ ~CondPositive
            => /\ AfterInstruction = memory
               /\ memory' = write(memory, PC, NextWord)]_vars

\* LP 1 2 3 ran at 0x8000 with 0xFFFFFFFF in cell 1 and 1 in cell 2: cell 3 is still 0
C14_Witness ==
    /\ at = "top"
    /\ i = 1
    /\ inst = to_bytes(LoadIfPos(1, 2, 3))
    /\ read(memory, 1) = W(65535, 65535)
    /\ read(memory, 2) = W(0, 1)
    /\ read(memory, 3) = Zero
    /\ read(memory, PC) = W(0, Base + 1)

-----------------------------------------------------------------------------
(* Claims about blank lines in assemble *)

\* line k is empty or holds only whitespace
Blank(k) == Trim(SourceLinesOf[k]) = <<>>

\* C15: a blank line (empty, or holding only whitespace) visited by either pass does
\* not abort the assembly, records no label and no breakpoint, and leaves the
\* program, whose length is the instruction counter, as it was.
C15_Original ==
    [][(at \in {"pass1", "pass2"}) /\ Blank(idx)
        => /\ at' # "aborted"
           /\ symbols' = symbols
           /\ asmBreaks' = asmBreaks
           /\ program' = program \/ (at = "pass1" /\ at' = "pass2" /\ program' = <<>>)]_vars

-----------------------------------------------------------------------------
(* Claims about the commands of Machine::debug *)

HexDigits == {"0", "1", "2", "3", "4", "5", "6", "7", "8", "9",
              "a", "b", "c", "d", "e", "f", "A", "B", "C", "D", "E", "F"}

\* a 16-bit address in hexadecimal
HexAddr(s) == Len(s) \in 1..4 /\ \A k \in 1..Len(s) : s[k] \in HexDigits

\* the command line has one of the valid forms: its first word is c, cont, continue
\* or exit, or it is r or read and the second word is a hexadecimal address
ValidForm(line) ==
    LET words == Split(Trim(line), " ")
    IN  \/ words[1] \in {C_c, C_cont, C_continue, C_exit}
        \/ words[1] \in {C_r, C_read} /\ Len(words) >= 2 /\ HexAddr(words[2])

\* C16: every command line that has none of the valid forms is answered with the
\* line "Invalid command" and leaves the debugger waiting for the next command; the
\* debugger is left only by continue, to the execution of the instruction, or by
\* exit, whose panic is "Exitting".
C16_Original ==
    /\ [][\A line \in Commands :
              ~ValidForm(line) /\ Debug(line) => at' = "debug" /\ term' = InvalidLine]_vars
    /\ [][at = "debug" /\ at' # "debug"
            => at' = "exec" \/ (at' = "aborted" /\ panic' = Exitting)]_vars

-----------------------------------------------------------------------------
(* Claims about the arithmetic of ADD and NEG *)

\* (a + b) mod 2^32
Sum32(a, b) ==
    W((a.hi + b.hi + (a.lo + b.lo) \div 65536) % 65536, (a.lo + b.lo) % 65536)

\* (2^32 - a) mod 2^32
Neg32(a) ==
    IF a.lo = 0 THEN W((65536 - a.hi) % 65536, 0) ELSE W(65535 - a.hi, 65536 - a.lo)

\* C17: a step that executes ADD lhs rhs out with out # 0 completes, whatever
\* mem[lhs] and mem[rhs] hold; it leaves (mem[lhs] + mem[rhs]) mod 2^32 in mem[out]
\* and the fetch address + 1 in PC, and changes no other cell.
C17_Original ==
    [][at = "exec" /\ at' # "exec" /\ FetchedBytes[1] = 0 /\ FetchedBytes[4] # 0
        => /\ at' = "top"
           /\ memory' = write(write(memory, FetchedBytes[4],
                                    Sum32(read(memory, FetchedBytes[2]),
                                          read(memory, FetchedBytes[3]))),
                              PC, NextWord)]_vars

\* C18: a step that executes NEG input out completes, whatever mem[input] holds, 0
\* and 0x80000000 included, and the instruction writes (2^32 - mem[input]) mod 2^32
\* to mem[out].
C18_Original ==
    [][at = "exec" /\ at' # "exec" /\ FetchedBytes[1] = 1
        => /\ at' = "top"
           /\ AfterInstruction
                = write(memory, FetchedBytes[3], Neg32(read(memory, FetchedBytes[2])))
           /\ FetchedBytes[3] # PC
                => read(memory', FetchedBytes[3]) = Neg32(read(memory, FetchedBytes[2]))]_vars

-----------------------------------------------------------------------------
(* Claims about the breakpoint marker *)

\* line k, trimmed, without its label
AfterLabel(k) ==
    LET t == Trim(SourceLinesOf[k])
    IN  IF Labelled(t) THEN StripLabel(t) ELSE t

\* the instruction lines marked with '~'
MarkedLines == { k \in NonBlank : AfterLabel(k) # <<>> /\ AfterLabel(k)[1] = "~" }

\* the j-th marked line of the source
NthMarked(j) == CHOOSE k \in MarkedLines : Cardinality({ m \in MarkedLines : m < k }) = j - 1

\* 0x8000 + the index of the instruction of line k
LineAddress(k) == 32768 + Preceding(k)

\* line k with its label and its marker taken away
Unmarked(k) == Trim(Tail(AfterLabel(k)))

\* C19: after pass 1 the breakpoints assemble returns are, in source order, 0x8000 +
\* the instruction index of each marked line, which is also the address recorded for
\* the label of that line; the word emitted for a marked line is the word of the
\* line without its marker; the returned addresses stay as they are, and in the run
\* every fetch at one of them enters the debugger before the word is fetched, with
\* memory untouched.
C19_Marker ==
    /\ [](at \in {"pass2", "main"} =>
            /\ Len(asmBreaks) = Cardinality(MarkedLines)
            /\ \A j \in 1..Len(asmBreaks) : asmBreaks[j] = LineAddress(NthMarked(j))
            /\ \A k \in MarkedLines :
                  Labelled(Trim(SourceLinesOf[k]))
                    /\ DefLine(LabelName(Trim(SourceLinesOf[k]))) = k
                  => symbols[LabelName(Trim(SourceLinesOf[k]))] = LineAddress(k))
    /\ [](at = "main" =>
            \A k \in MarkedLines :
                <<program[Preceding(k) + 1]>> = add_inst(Unmarked(k), <<>>, TRUE, symbols).program)
    /\ [][at # "pass1" => asmBreaks' = asmBreaks]_vars
    /\ [][at = "top" /\ at' # "top"
              /\ (\E j \in 1..Len(asmBreaks) : read(memory, PC).lo = asmBreaks[j])
            => at' = "debug" /\ memory' = memory /\ inst' = inst /\ out' = out]_vars

Source_Marked ==
    Join(<<Join(<<M_LI, T_1, T_x41>>, " "),
           Join(<<Colon(T_end), <<"~">> \o M_ADD, T_1, T_1, T_2>>, " ")>>, "\n")

\* "LI 1 0x41" then "end: ~ADD 1 1 2": after the first step the run is in the debugger
\* at 0x8001, the address of the label, with the ADD not yet executed
C19_Witness ==
    /\ at = "debug"
    /\ asm = Source_Marked
    /\ i = 1
    /\ pc = Base + 1
    /\ asmBreaks = <<Base + 1>>
    /\ symbols[T_end] = Base + 1
    /\ program[2] = to_bytes(Add(1, 1, 2))
    /\ read(memory, 2) = Zero

-----------------------------------------------------------------------------
(* Claims about what a step may change *)

\* the step executes S with to = 0xFFFE and a nonzero cell as its source
StoresToWriting ==
    /\ FetchedBytes[1] = 9
    /\ FetchedBytes[3] + 256 * FetchedBytes[4] = 65534
    /\ (read(memory, FetchedBytes[2]).hi # 0 \/ read(memory, FetchedBytes[2]).lo # 0)

\* C20: a step that executes an instruction other than S leaves every cell at the
\* addresses 256..0xFFFD and the DATA cell as they were, so the cells from 0x8000
\* on, where the program is loaded, change only in steps that execute S; and with
\* WRITING = 0 before the step, the step emits a character only when it executes S
\* with to = 0xFFFE and a nonzero source value.
C20_Frame ==
    /\ [][at = "exec" /\ at' # "exec" /\ FetchedBytes[1] # 9
            => \A a \in Touched : a >= 256 /\ a # 65534
                                     => read(memory', a) = read(memory, a)]_vars
    /\ [][(\E a \in Touched : a >= 32768 /\ a < 65534 /\ read(memory', a) # read(memory, a))
            => at = "main" \/ (at = "exec" /\ FetchedBytes[1] = 9)]_vars
    /\ [][out' # out /\ read(memory, 65534) = Zero
            => at = "exec" /\ StoresToWriting /\ Len(out') = Len(out) + 1]_vars

\* S 1 0xFFFF then ADD 1 2 1, with 'A' in cell 1 and 1 in cell 2: the ADD changed
\* cell 1, and DATA and the two program words are as they were, with nothing printed
C20_Witness ==
    /\ at = "top"
    /\ i = 2
    /\ program = <<to_bytes(Store(1, DATA)), to_bytes(Add(1, 2, 1))>>
    /\ inst = to_bytes(Add(1, 2, 1))
    /\ read(memory, 1) = W(0, 66)
    /\ read(memory, DATA) = W(0, 65)
    /\ read(memory, Base) = program[1]
    /\ read(memory, Base + 1) = program[2]
    /\ out = <<>>

=============================================================================
